---- MODULE Spec2Model ----
(***************************************************************************)
(* Event ticket management (streamlit_pg_06.py): the ticket table held in  *)
(* PostgreSQL, the cached load, the per-session in-memory snapshot and the *)
(* sale / check-in / reset / menu handlers that rewrite the whole table.   *)
(***************************************************************************)
EXTENDS Integers, Sequences, FiniteSets, TLC

\* ---------------------------------------------------------------- bounds
MaxClock == 2        \* distinct instants pd.Timestamp.now() can return
MaxBatch == 2        \* rows of an uploaded bulk-sale sheet
MaxDashRows == 2     \* tickets of a table the dashboard is drawn from

\* ------------------------------------------------------- program constants
ZFillWidth == 4      \* .str.zfill(4)

\* ------------------------------------------------------------ value model
\* A nullable cell is a sequence: <<>> is NULL / None / NaN, <<v>> is v.
Null == <<>>
Some(v) == <<v>>
IsNull(c) == c = <<>>

\* Series.fillna(d) on one cell
fillna(c, d) == IF IsNull(c) THEN d ELSE c[1]

\* Strings that the code parses or pads are sequences of characters.
RECURSIVE Digits(_)
Digits(n) == IF n < 10 THEN <<n>> ELSE Digits(n \div 10) \o <<n % 10>>

\* astype(str) of an integer TicketID: its decimal digits
AsStr(n) == Digits(n)

\* str.zfill(4): left-pad with zeros to width 4, longer strings unchanged
RECURSIVE zfill(_)
zfill(s) == IF Len(s) >= ZFillWidth THEN s ELSE zfill(<<0>> \o s)

Sessions == {1, 2}
Types == {"Public", "Guest"}
Names == {"", "Bob", "Carol"}
AdminPassword == "admin123"
Passwords == {"admin123", "guess"}

\* --------------------------------------------------------------- database
\* The tickets table before the application ever wrote it: all unsold,
\* nullable columns NULL, TicketID not yet padded.
DbRow(id, ty, cat, admit, seq) ==
    [TicketID |-> id, Type |-> ty, Category |-> cat, Admit |-> admit, Seq |-> seq,
     Sold |-> Null, Customer |-> Null, Visited |-> Null,
     Visitor_Seats |-> Null, Timestamp |-> Null]

InitTicketsTable ==
    << DbRow(AsStr(1), "Public", "Gold", Some(2), Some(1)),
       DbRow(AsStr(2), "Guest", "VIP", Null, Some(0)) >>

MenuRow(seq, ty, cat, series, admit, alloc, cap) ==
    [Seq |-> seq, Type |-> ty, Category |-> cat, Series |-> series,
     Admit |-> admit, Alloc |-> alloc, Total_Capacity |-> cap]

InitMenuTable ==
    << MenuRow(Some(1), "Public", "Gold", Some(<<"1", "-", "2">>), Some(2), Some(2), Some(4)),
       MenuRow(Some(0), "Guest", "VIP", Some(<<"2", "-", "2">>), Some(1), Some(1), Some(1)) >>

VARIABLES
    db_tickets,   \* table "tickets" in PostgreSQL
    db_menu,      \* table "menu" in PostgreSQL
    cache,        \* st.cache_data entry of load_all_data: Null or Some(<<tickets, menu>>)
    tickets,      \* tickets[s]: the dataframe `tickets` of session s's script run
    menu,         \* menu[s]: the dataframe `menu` of session s's script run
    pc,           \* pc[s]: "start" before line 63 of a script run, "loaded" after it;
                  \* a run serves the one button that triggered it and ends
    now,          \* the wall clock read by pd.Timestamp.now()
    last,         \* the handler served by the step leading here: its inputs and
                  \* the dataframe `tickets` it started from
    view          \* view[s]: summary_final as the dashboard of session s last showed it

vars == <<db_tickets, db_menu, cache, tickets, menu, pc, now, last, view>>

NoEvent == [op |-> "none"]

\* ------------------------------------------------------------------- load
\* load_all_data, lines 36-43: cleaning of one row read from the table
CleanRow(r) ==
    [TicketID |-> zfill(r.TicketID), Type |-> r.Type, Category |-> r.Category,
     Admit |-> fillna(r.Admit, 1), Seq |-> r.Seq,
     Sold |-> fillna(r.Sold, FALSE), Customer |-> fillna(r.Customer, ""),
     Visited |-> fillna(r.Visited, FALSE),
     Visitor_Seats |-> fillna(r.Visitor_Seats, 0), Timestamp |-> r.Timestamp]

load_all_data(tbl) == [i \in 1..Len(tbl) |-> CleanRow(tbl[i])]

\* DataFrame.to_sql: one in-memory row as written to the table
StoreRow(r) ==
    [TicketID |-> r.TicketID, Type |-> r.Type, Category |-> r.Category,
     Admit |-> Some(r.Admit), Seq |-> r.Seq,
     Sold |-> Some(r.Sold), Customer |-> Some(r.Customer),
     Visited |-> Some(r.Visited),
     Visitor_Seats |-> Some(r.Visitor_Seats), Timestamp |-> r.Timestamp]

to_sql(df) == [i \in 1..Len(df) |-> StoreRow(df[i])]

\* -------------------------------------------------------- dataframe helpers
\* A lookup whose mask holds at every row
IndexOf_Any(df, tid) == 1..Len(df)

\* tickets.index[tickets['TicketID'] == tid]: the row positions holding tid
IndexOf(df, tid) == {i \in 1..Len(df) : df[i].TicketID = tid}

\* ...[0]: the first of them
Min(S) == CHOOSE x \in S : \A y \in S : x <= y
FirstIndex(df, tid) == Min(IndexOf(df, tid))

\* menu[menu['Type'] == t]['Category']
MenuCategories(m, t) == {m[i].Category : i \in {j \in 1..Len(m) : m[j].Type = t}}

\* -------------------------------------------------------------- dashboard
SortSentinel == 10   \* the key custom_sort gives to Seq 0

\* Line 59: the lambda giving each row its sort_key
sort_key(x) == IF x = 0 THEN SortSentinel ELSE x

\* sort_values('sort_key') on a short frame: insertion of one row after the
\* rows whose key is not larger
RECURSIVE InsertByKey(_, _)
InsertByKey(sorted, r) ==
    IF sorted = <<>> THEN <<r>>
    ELSE IF sort_key(Head(sorted).Seq[1]) <= sort_key(r.Seq[1])
           THEN <<Head(sorted)>> \o InsertByKey(Tail(sorted), r)
           ELSE <<r>> \o sorted

RECURSIVE SortRows(_)
SortRows(df) ==
    IF df = <<>> THEN <<>>
    ELSE InsertByKey(SortRows(SubSeq(df, 1, Len(df) - 1)), df[Len(df)])

\* Lines 57-60: custom_sort; int(x) raises on a missing Seq
CustomSortRaises(df) == \E i \in 1..Len(df) : IsNull(df[i].Seq)
custom_sort(df) == SortRows(df)

\* The order sort=True of groupby puts the text keys in
TypeOrder == <<"Guest", "Public">>
CategoryOrder == <<"Gold", "VIP">>
Rank(order, x) == CHOOSE k \in 1..Len(order) : order[k] = x

\* Line 93: the key of a row in groupby(['Seq', 'Type', 'Category', 'Admit'])
GroupKey(r) ==
    <<r.Seq[1], Rank(TypeOrder, r.Type), Rank(CategoryOrder, r.Category), r.Admit>>

\* Line 93: groupby leaves out the rows whose key has a missing value
Grouped(df) == {i \in 1..Len(df) : ~IsNull(df[i].Seq)}
GroupKeys(df) == {GroupKey(df[i]) : i \in Grouped(df)}
Members(df, key) == {i \in Grouped(df) : GroupKey(df[i]) = key}

\* groupby sorts the groups by key, column after column
RECURSIVE KeyLess(_, _)
KeyLess(k1, k2) ==
    IF k1 = <<>> THEN FALSE
    ELSE \/ Head(k1) < Head(k2)
         \/ Head(k1) = Head(k2) /\ KeyLess(Tail(k1), Tail(k2))

RECURSIVE SortedKeys(_)
SortedKeys(keys) ==
    IF keys = {} THEN <<>>
    ELSE LET k == CHOOSE x \in keys : \A y \in keys \ {x} : KeyLess(x, y)
         IN <<k>> \o SortedKeys(keys \ {k})

\* ('Visitor_Seats', 'sum') over the rows of one group
RECURSIVE SumSeats(_, _)
SumSeats(df, rows) ==
    IF rows = {} THEN 0
    ELSE LET i == CHOOSE x \in rows : TRUE
         IN df[i].Visitor_Seats + SumSeats(df, rows \ {i})

\* Lines 93-103: one row of summary
SummaryRow(df, key) ==
    LET rows == Members(df, key)
        admit == key[4]
        total == Cardinality(rows)
        sold == Cardinality({i \in rows : df[i].Sold})
        visitors == SumSeats(df, rows)
    IN [Seq |-> Some(key[1]), Type |-> TypeOrder[key[2]], Category |-> CategoryOrder[key[3]],
        Admit |-> admit,
        Total_Tickets |-> total,
        Tickets_Sold |-> sold,
        Total_Seats |-> total * admit,
        Seats_sold |-> sold * admit,
        Total_Visitors |-> visitors,
        Balance_Tickets |-> total - sold,
        Balance_Seats |-> total * admit - sold * admit,
        Balance_Visitors |-> sold * admit - visitors]

\* Lines 93-109: summary, sorted by custom_sort
summary(df) ==
    LET keys == SortedKeys(GroupKeys(df))
    IN custom_sort([g \in 1..Len(keys) |-> SummaryRow(df, keys[g])])

NumericColumns ==
    {"Admit", "Total_Tickets", "Tickets_Sold", "Total_Seats", "Seats_sold",
     "Total_Visitors", "Balance_Tickets", "Balance_Seats", "Balance_Visitors"}

\* A sum that stops one row short
RECURSIVE ColumnSum_DropLast(_, _)
ColumnSum_DropLast(sm, col) ==
    IF Len(sm) <= 1 THEN 0 ELSE Head(sm)[col] + ColumnSum_DropLast(Tail(sm), col)

\* .sum() of one column of summary
RECURSIVE ColumnSum(_, _)
ColumnSum(sm, col) ==
    IF sm = <<>> THEN 0 ELSE Head(sm)[col] + ColumnSum(Tail(sm), col)

\* Lines 110-111: totals, the sums of the numeric columns under Seq 'Total'
totals(sm) ==
    [Seq |-> "Total", Type |-> Null, Category |-> Null,
     Admit |-> ColumnSum(sm, "Admit"),
     Total_Tickets |-> ColumnSum(sm, "Total_Tickets"),
     Tickets_Sold |-> ColumnSum(sm, "Tickets_Sold"),
     Total_Seats |-> ColumnSum(sm, "Total_Seats"),
     Seats_sold |-> ColumnSum(sm, "Seats_sold"),
     Total_Visitors |-> ColumnSum(sm, "Total_Visitors"),
     Balance_Tickets |-> ColumnSum(sm, "Balance_Tickets"),
     Balance_Seats |-> ColumnSum(sm, "Balance_Seats"),
     Balance_Visitors |-> ColumnSum(sm, "Balance_Visitors")]

\* Line 113: summary_final, the groups followed by the totals
summary_final(df) == summary(df) \o <<totals(summary(df))>>

Init ==
    /\ db_tickets = InitTicketsTable
    /\ db_menu = InitMenuTable
    /\ cache = Null
    /\ tickets = [s \in Sessions |-> <<>>]
    /\ menu = [s \in Sessions |-> <<>>]
    /\ pc = [s \in Sessions |-> "start"]
    /\ now = 1
    /\ last = NoEvent
    /\ view = [s \in Sessions |-> <<>>]

\* Line 63: tickets, menu = load_all_data(), served from the cache when filled,
\* and lines 89-116: the dashboard drawn from it
Load(s) ==
    /\ pc[s] = "start"
    /\ IF IsNull(cache)
         THEN /\ tickets' = [tickets EXCEPT ![s] = load_all_data(db_tickets)]
              /\ menu' = [menu EXCEPT ![s] = db_menu]
              /\ cache' = Some(<<load_all_data(db_tickets), db_menu>>)
         ELSE /\ tickets' = [tickets EXCEPT ![s] = cache[1][1]]
              /\ menu' = [menu EXCEPT ![s] = cache[1][2]]
              /\ cache' = cache
    /\ pc' = [pc EXCEPT ![s] = "loaded"]
    /\ view' = [view EXCEPT ![s] = summary_final(tickets'[s])]
    /\ UNCHANGED <<db_tickets, db_menu, now>>
    /\ last' = NoEvent

\* @st.cache_data(ttl=60): the entry expires
CacheExpire ==
    /\ ~IsNull(cache)
    /\ cache' = Null
    /\ UNCHANGED <<db_tickets, db_menu, tickets, menu, pc, now, view>>
    /\ last' = NoEvent

\* Time passes
Tick ==
    /\ now < MaxClock
    /\ now' = now + 1
    /\ UNCHANGED <<db_tickets, db_menu, cache, tickets, menu, pc, view>>
    /\ last' = NoEvent

\* Lines 68-70: Refresh Data
Refresh(s) ==
    /\ pc[s] = "loaded"
    /\ cache' = Null
    /\ pc' = [pc EXCEPT ![s] = "start"]
    /\ UNCHANGED <<db_tickets, db_menu, tickets, menu, now, view>>
    /\ last' = NoEvent

\* A save that leaves the cache as it is
SaveAndRerun_KeepCache(s, df, ev) ==
    /\ tickets' = [tickets EXCEPT ![s] = df]
    /\ db_tickets' = to_sql(df)
    /\ cache' = cache
    /\ pc' = [pc EXCEPT ![s] = "start"]
    /\ last' = ev
    /\ UNCHANGED <<db_menu, menu, now, view>>

\* A save that writes only the rows the handler changed
SaveAndRerun_Merge(s, df, ev) ==
    /\ tickets' = [tickets EXCEPT ![s] = df]
    /\ db_tickets' = [i \in 1..Len(db_tickets) |->
                         IF df[i] # ev.before[i] THEN StoreRow(df[i])
                         ELSE db_tickets[i]]
    /\ cache' = Null
    /\ pc' = [pc EXCEPT ![s] = "start"]
    /\ last' = ev
    /\ UNCHANGED <<db_menu, menu, now, view>>

\* save_to_db(tickets_df), lines 50-55, followed by st.rerun(), as every
\* ticket handler ends
SaveAndRerun(s, df, ev) ==
    /\ tickets' = [tickets EXCEPT ![s] = df]
    /\ db_tickets' = to_sql(df)
    /\ cache' = Null
    /\ pc' = [pc EXCEPT ![s] = "start"]
    /\ last' = ev
    /\ UNCHANGED <<db_menu, menu, now, view>>

\* Reset that forgets the Visitor_Seats column
ResetRow_KeepSeats(r) ==
    [r EXCEPT !.Sold = FALSE, !.Visited = FALSE, !.Customer = "", !.Timestamp = Null]

\* Lines 75-79: the column assignments of Reset Database
ResetRow(r) ==
    [r EXCEPT !.Sold = FALSE, !.Visited = FALSE, !.Customer = "",
              !.Visitor_Seats = 0, !.Timestamp = Null]

\* Lines 72-83: Reset Database
Reset(s, admin_pass) ==
    /\ pc[s] = "loaded"
    /\ IF admin_pass = AdminPassword
         THEN SaveAndRerun(s, [i \in 1..Len(tickets[s]) |-> ResetRow(tickets[s][i])],
                           [op |-> "Reset", s |-> s, before |-> tickets[s], admin_pass |-> admin_pass,
                            table |-> db_tickets])
         ELSE /\ last' = [op |-> "Reset", s |-> s, before |-> tickets[s], admin_pass |-> admin_pass,
                            table |-> db_tickets]
              /\ pc' = [pc EXCEPT ![s] = "start"]
              /\ UNCHANGED <<db_tickets, db_menu, cache, tickets, menu, now, view>>

\* ------------------------------------------------------------------ sales
\* A sale list that offers sold tickets too
avail_IncludeSold(df, s_type, s_cat) ==
    {df[i].TicketID : i \in {j \in 1..Len(df) :
        df[j].Type = s_type /\ df[j].Category = s_cat}}

\* Line 128: the TicketIDs offered by the manual sale form
avail(df, s_type, s_cat) ==
    {df[i].TicketID : i \in {j \in 1..Len(df) :
        df[j].Type = s_type /\ df[j].Category = s_cat /\ ~df[j].Sold}}

\* Lines 135-137 (and 150-152): the cell assignments of a sale
SellRow(r, cust, t) ==
    [r EXCEPT !.Sold = TRUE, !.Customer = cust, !.Timestamp = Some(t)]

\* Lines 125-139: Manual sale
ManualSale(s, s_type, s_cat, tid, cust) ==
    /\ pc[s] = "loaded"
    /\ s_cat \in MenuCategories(menu[s], s_type)
    /\ tid \in avail(tickets[s], s_type, s_cat)
    /\ LET idx == FirstIndex(tickets[s], tid)
       IN SaveAndRerun(s, [tickets[s] EXCEPT ![idx] = SellRow(@, cust, now)],
                       [op |-> "ManualSale", s |-> s, before |-> tickets[s], idx |-> idx,
                        tid |-> tid, cust |-> cust])

\* A match that does not look at Sold
match_IgnoreSold(df, tid) == {i \in 1..Len(df) : df[i].TicketID = tid}

\* Line 147: rows matching an uploaded TicketID that are still unsold
match(df, tid) == {i \in 1..Len(df) : df[i].TicketID = tid /\ ~df[i].Sold}

\* Lines 147-152: one uploaded row
BulkRow(df, row, t) ==
    IF match(df, row.TicketID) # {}
      THEN [df EXCEPT ![Min(match(df, row.TicketID))] = SellRow(@, row.CustomerName, t)]
      ELSE df

\* Lines 146-152: the loop over the uploaded rows, in order
RECURSIVE BulkLoop(_, _, _)
BulkLoop(df, up_df, t) ==
    IF up_df = <<>> THEN df
    ELSE BulkLoop(BulkRow(df, Head(up_df), t), Tail(up_df), t)

\* Line 145: up_df['TicketID'].astype(str).str.zfill(4)
NormalizeUpload(sheet) ==
    [i \in 1..Len(sheet) |->
        [TicketID |-> zfill(AsStr(sheet[i].TicketID)), CustomerName |-> sheet[i].CustomerName]]

\* Lines 141-154: Bulk Upload
BulkSale(s, sheet) ==
    /\ pc[s] = "loaded"
    /\ SaveAndRerun(s, BulkLoop(tickets[s], NormalizeUpload(sheet), now),
                    [op |-> "BulkSale", s |-> s, before |-> tickets[s], sheet |-> sheet])

\* Line 157: the TicketIDs offered by the reverse sale form
sold_list(df) == {df[i].TicketID : i \in {j \in 1..Len(df) : df[j].Sold}}

\* Sale reversals that forget a column, or that also undo the entry
ReverseSaleRow_KeepCustomer(r) == [r EXCEPT !.Sold = FALSE, !.Timestamp = Null]
ReverseSaleRow_KeepTimestamp(r) == [r EXCEPT !.Sold = FALSE, !.Customer = ""]
ReverseSaleRow_Cascade(r) ==
    [r EXCEPT !.Sold = FALSE, !.Customer = "", !.Timestamp = Null,
              !.Visited = FALSE, !.Visitor_Seats = 0]

\* Lines 163-165: the cell assignments of a sale reversal
ReverseSaleRow(r) ==
    [r EXCEPT !.Sold = FALSE, !.Customer = "", !.Timestamp = Null]

\* Lines 156-167: Reverse Sale
ReverseSale(s, rev_tid) ==
    /\ pc[s] = "loaded"
    /\ rev_tid \in sold_list(tickets[s])
    /\ LET idx == FirstIndex(tickets[s], rev_tid)
       IN SaveAndRerun(s, [tickets[s] EXCEPT ![idx] = ReverseSaleRow(@)],
                       [op |-> "ReverseSale", s |-> s, before |-> tickets[s], idx |-> idx,
                        tid |-> rev_tid])

\* --------------------------------------------------------------- visitors
\* An eligibility list that offers every sold ticket
elig_IncludeVisited(df, v_type, v_cat) ==
    {df[i].TicketID : i \in {j \in 1..Len(df) :
        df[j].Type = v_type /\ df[j].Category = v_cat /\ df[j].Sold}}

\* Lines 187-188: the TicketIDs offered by the entry form
elig(df, v_type, v_cat) ==
    {df[i].TicketID : i \in {j \in 1..Len(df) :
        df[j].Type = v_type /\ df[j].Category = v_cat /\ df[j].Sold /\ ~df[j].Visited}}

\* Line 192: max_v, the Admit of the first row holding tid
max_v(df, tid) == df[FirstIndex(df, tid)].Admit

\* Number fields without a maximum, without a minimum
number_input_NoMax(v, lo, hi) == lo <= v
number_input_NoMin(v, lo, hi) == v <= hi

\* Line 193: st.number_input("Confirmed Visitors", 1, max_v, max_v) only
\* returns values between its minimum and its maximum
number_input(v, lo, hi) == lo <= v /\ v <= hi

\* Lines 196-198: the cell assignments of an entry
EntryRow(r, v_count, t) ==
    [r EXCEPT !.Visited = TRUE, !.Visitor_Seats = v_count, !.Timestamp = Some(t)]

\* Lines 184-200: Entry
Entry(s, v_type, v_cat, tid, v_count) ==
    /\ pc[s] = "loaded"
    /\ v_cat \in MenuCategories(menu[s], v_type)
    /\ tid \in elig(tickets[s], v_type, v_cat)
    /\ number_input(v_count, 1, max_v(tickets[s], tid))
    /\ LET idx == FirstIndex(tickets[s], tid)
       IN SaveAndRerun(s, [tickets[s] EXCEPT ![idx] = EntryRow(@, v_count, now)],
                       [op |-> "Entry", s |-> s, before |-> tickets[s], idx |-> idx,
                        tid |-> tid, v_count |-> v_count])

\* Line 203: the TicketIDs offered by the reverse entry form
visited_list(df) == {df[i].TicketID : i \in {j \in 1..Len(df) : df[j].Visited}}

\* Entry reversals that keep the head count, or that also clear the Timestamp
ReverseEntryRow_KeepSeats(r) == [r EXCEPT !.Visited = FALSE]
ReverseEntryRow_ClearTimestamp(r) ==
    [r EXCEPT !.Visited = FALSE, !.Visitor_Seats = 0, !.Timestamp = Null]

\* Lines 209-210: the cell assignments of an entry reversal
ReverseEntryRow(r) == [r EXCEPT !.Visited = FALSE, !.Visitor_Seats = 0]

\* Lines 202-212: Reverse Entry
ReverseEntry(s, rev_v_tid) ==
    /\ pc[s] = "loaded"
    /\ rev_v_tid \in visited_list(tickets[s])
    /\ LET idx == FirstIndex(tickets[s], rev_v_tid)
       IN SaveAndRerun(s, [tickets[s] EXCEPT ![idx] = ReverseEntryRow(@)],
                       [op |-> "ReverseEntry", s |-> s, before |-> tickets[s], idx |-> idx,
                        tid |-> rev_v_tid])

\* ------------------------------------------------------------------- menu
DigitChars == <<"0", "1", "2", "3", "4", "5", "6", "7", "8", "9">>
IsDigit(c) == \E d \in 1..10 : DigitChars[d] = c
DigitValue(c) == (CHOOSE d \in 1..10 : DigitChars[d] = c) - 1

\* str(row['Series']): a missing cell prints as "None"
StrOf(cell) == IF IsNull(cell) THEN <<"N", "o", "n", "e">> ELSE cell[1]

\* str.split('-')
RECURSIVE Split(_)
Split(str) ==
    IF \A k \in 1..Len(str) : str[k] # "-" THEN <<str>>
    ELSE LET k == Min({n \in 1..Len(str) : str[n] = "-"})
         IN <<SubSeq(str, 1, k - 1)>> \o Split(SubSeq(str, k + 1, Len(str)))

\* int(part) succeeds on a non-empty run of digits
IntParses(part) == part # <<>> /\ \A k \in 1..Len(part) : IsDigit(part[k])
RECURSIVE IntOf(_)
IntOf(part) ==
    IF part = <<>> THEN 0
    ELSE 10 * IntOf(SubSeq(part, 1, Len(part) - 1)) + DigitValue(part[Len(part)])

\* A recalculation that reads the first two parts and ignores further ones
DeriveRow_IgnoreExtra(row) ==
    LET parts == Split(StrOf(row.Series))
    IN IF Len(parts) >= 2 /\ IntParses(parts[1]) /\ IntParses(parts[2])
         THEN LET count == (IntOf(parts[2]) - IntOf(parts[1])) + 1
              IN [row EXCEPT !.Alloc = Some(count),
                             !.Total_Capacity =
                                 IF IsNull(row.Admit) THEN Null
                                 ELSE Some(count * row.Admit[1])]
         ELSE row

\* Lines 230-237: the body of the recalculation loop for one row
DeriveRow(row) ==
    LET str == StrOf(row.Series)
        parts == Split(str)
    IN IF \E k \in 1..Len(str) : str[k] = "-"
         THEN IF Len(parts) = 2 /\ IntParses(parts[1]) /\ IntParses(parts[2])
                THEN LET count == (IntOf(parts[2]) - IntOf(parts[1])) + 1
                     IN [row EXCEPT !.Alloc = Some(count),
                                    !.Total_Capacity =
                                        IF IsNull(row.Admit) THEN Null
                                        ELSE Some(count * row.Admit[1])]
                ELSE row
         ELSE row

\* Lines 229-237: the recalculation loop
Derive(df) == [i \in 1..Len(df) |-> DeriveRow(df[i])]

\* Line 226: st.data_editor with one cell of column Series rewritten
data_editor(df, edit) ==
    IF edit.row \in 1..Len(df)
      THEN [df EXCEPT ![edit.row].Series = edit.Series]
      ELSE df

\* Lines 223-246: Edit Menu and Update Database Menu
MenuCommit(s, edit, menu_pass) ==
    /\ pc[s] = "loaded"
    /\ ~CustomSortRaises(menu[s])
    /\ IF menu_pass = AdminPassword
         THEN /\ db_tickets' = to_sql(tickets[s])
              /\ db_menu' = Derive(data_editor(custom_sort(menu[s]), edit))
              /\ cache' = Null
              /\ pc' = [pc EXCEPT ![s] = "start"]
              /\ last' = [op |-> "MenuCommit", s |-> s, before |-> tickets[s],
                          menu_pass |-> menu_pass,
                          edited |-> data_editor(custom_sort(menu[s]), edit),
                          table |-> db_menu]
              /\ UNCHANGED <<tickets, menu, now, view>>
         ELSE /\ last' = [op |-> "MenuCommit", s |-> s, before |-> tickets[s],
                          menu_pass |-> menu_pass,
                          edited |-> data_editor(custom_sort(menu[s]), edit),
                          table |-> db_menu]
              /\ pc' = [pc EXCEPT ![s] = "start"]
              /\ UNCHANGED <<db_tickets, db_menu, cache, tickets, menu, now, view>>

\* ------------------------------------------------------------------ inputs
\* TicketID numbers as typed in an uploaded sheet; 7 is in no table
UploadIDs == {1, 2, 7}
TicketIDs == {zfill(AsStr(n)) : n \in UploadIDs}
Categories == {"Gold", "VIP"}
\* Values typed into the Confirmed Visitors field, some outside every Admit
VisitorCounts == 0..3
\* Rows of an uploaded sheet: a ticket named twice for two customers, a
\* second ticket, an ID of no ticket
SheetRows ==
    { [TicketID |-> 1, CustomerName |-> "Bob"],
      [TicketID |-> 1, CustomerName |-> "Carol"],
      [TicketID |-> 2, CustomerName |-> "Carol"],
      [TicketID |-> 7, CustomerName |-> "Bob"] }
Sheets == UNION {[1..n -> SheetRows] : n \in 0..MaxBatch}
SeriesChoices == {Some(<<"1", "-", "3">>)}
MenuEdits == [row : 0..1, Series : SeriesChoices]

\* One operator session at a time (spec section 5: single editor session)
Step(s) ==
    \/ Load(s)
    \/ Refresh(s)
    \/ \E p \in Passwords : Reset(s, p)
    \/ \E ty \in Types, cat \in Categories, tid \in TicketIDs, c \in Names :
          ManualSale(s, ty, cat, tid, c)
    \/ \E sheet \in Sheets : BulkSale(s, sheet)
    \/ \E tid \in TicketIDs : ReverseSale(s, tid)
    \/ \E ty \in Types, cat \in Categories, tid \in TicketIDs, v \in VisitorCounts :
          Entry(s, ty, cat, tid, v)
    \/ \E tid \in TicketIDs : ReverseEntry(s, tid)
    \/ \E e \in MenuEdits, p \in Passwords : MenuCommit(s, e, p)

Next ==
    \/ Step(1)
    \/ CacheExpire
    \/ Tick

Spec == Init /\ [][Next]_vars

\* ------------------------------------------------------------ two sessions
\* Two browser sessions whose script runs overlap: each run loads at line 63
\* and serves its button later, the other session's run in between
StepMulti(s) ==
    \/ Load(s)
    \/ \E ty \in Types, cat \in Categories, tid \in TicketIDs :
          ManualSale(s, ty, cat, tid, "Bob")
    \/ \E tid \in TicketIDs : ReverseSale(s, tid)
    \/ \E ty \in Types, cat \in Categories, tid \in TicketIDs :
          Entry(s, ty, cat, tid, 1)
    \/ \E tid \in TicketIDs : ReverseEntry(s, tid)

NextMulti == \E s \in Sessions : StepMulti(s)

SpecMulti == Init /\ [][NextMulti]_vars

\* ------------------------------------------------- dashboard of any table
\* Tickets tables as the application can have left them: any Seq (missing,
\* 0, below and above the sort sentinel), either category, any sale state
DashSeqs == {Null, Some(0), Some(1), Some(11)}
DashGroups ==
    << [Type |-> "Public", Category |-> "Gold", Admit |-> 2],
       [Type |-> "Guest", Category |-> "VIP", Admit |-> 1] >>
DashCells == [Seq : DashSeqs, grp : 1..2, st : {"unsold", "sold", "visited"}]

DashRow(i, c) ==
    [TicketID |-> zfill(AsStr(i)), Type |-> DashGroups[c.grp].Type,
     Category |-> DashGroups[c.grp].Category, Admit |-> Some(DashGroups[c.grp].Admit),
     Seq |-> c.Seq,
     Sold |-> Some(c.st # "unsold"),
     Customer |-> Some(IF c.st = "unsold" THEN "" ELSE "Bob"),
     Visited |-> Some(c.st = "visited"),
     Visitor_Seats |-> Some(IF c.st = "visited" THEN 1 ELSE 0),
     Timestamp |-> IF c.st = "unsold" THEN Null ELSE Some(1)]

DashTable(f) == [i \in DOMAIN f |-> DashRow(i, f[i])]

InitDash ==
    /\ \E n \in 0..MaxDashRows : \E f \in [1..n -> DashCells] :
          db_tickets = DashTable(f)
    /\ db_menu = InitMenuTable
    /\ cache = Null
    /\ tickets = [s \in Sessions |-> <<>>]
    /\ menu = [s \in Sessions |-> <<>>]
    /\ pc = [s \in Sessions |-> "start"]
    /\ now = 1
    /\ last = NoEvent
    /\ view = [s \in Sessions |-> <<>>]

\* Script runs that only draw the dashboard
NextDash ==
    \/ Load(1)
    \/ Refresh(1)
    \/ CacheExpire

SpecDash == InitDash /\ [][NextDash]_vars

\* ------------------------------------------------------------- properties
\* Every ticket table there is: each session's dataframe and the persisted
\* table as a load returns it
TicketStores == {tickets[s] : s \in Sessions} \cup {load_all_data(db_tickets)}
AllTickets == UNION {{st[i] : i \in 1..Len(st)} : st \in TicketStores}

\* The handler that just ran, the row it chose before and after
Ran(op) == last.op = op
Pre == last.before[last.idx]
Post == tickets[last.s][last.idx]

\* C1: every ticket that is Visited is Sold.
C1_VisitedImpliesSold == \A r \in AllTickets : r.Visited => r.Sold

\* C2: every unsold ticket has Customer "" and Timestamp null.
C2_UnsoldIsBlank ==
    \A r \in AllTickets : ~r.Sold => (r.Customer = "" /\ r.Timestamp = Null)

\* C2 witness: sale, entry, sale reversal and entry reversal of one ticket
C2_Witness ==
    /\ Ran("ReverseEntry")
    /\ ~Pre.Sold /\ Pre.Visited
    /\ ~Post.Sold /\ Post.Customer = "" /\ Post.Timestamp = Null

\* C3: every ticket has 0 <= Visitor_Seats <= its own Admit.
C3_SeatsWithinAdmit ==
    \A r \in AllTickets : 0 <= r.Visitor_Seats /\ r.Visitor_Seats <= r.Admit

\* C3 witness: an entry that fills a ticket admitting two
C3_Witness ==
    /\ Ran("Entry")
    /\ Post.Admit = 2 /\ Post.Visitor_Seats = Post.Admit

\* C4: every ticket that is not Visited has Visitor_Seats 0.
C4_NotVisitedNoSeats == \A r \in AllTickets : ~r.Visited => r.Visitor_Seats = 0

\* C4 witness: an entry reversal of a ticket that had visitors
C4_Witness ==
    /\ Ran("ReverseEntry")
    /\ Pre.Visitor_Seats > 0
    /\ ~Post.Visited /\ Post.Visitor_Seats = 0

\* The rows of a sheet naming ticket id, in the order of the sheet
SheetHits(sheet, id) ==
    {k \in 1..Len(sheet) : zfill(AsStr(sheet[k].TicketID)) = id}

\* C5: a bulk sale sells each unsold ticket named in the sheet to the customer
\* of the first sheet row naming it, and changes no other ticket: later
\* duplicates, unmatched IDs and already sold IDs have no effect.
C5_BulkFirstOccurrence ==
    Ran("BulkSale") =>
        LET pre == last.before
            post == tickets[last.s]
        IN /\ Len(post) = Len(pre)
           /\ \A i \in 1..Len(pre) :
                LET hits == SheetHits(last.sheet, pre[i].TicketID)
                IN IF ~pre[i].Sold /\ hits # {}
                     THEN post[i] = [pre[i] EXCEPT
                                        !.Sold = TRUE,
                                        !.Customer = last.sheet[Min(hits)].CustomerName,
                                        !.Timestamp = Some(now)]
                     ELSE post[i] = pre[i]

\* C5 witness: a sheet naming one available ticket twice, for two customers
C5_Witness ==
    /\ Ran("BulkSale")
    /\ Len(last.sheet) = 2
    /\ last.sheet[1].TicketID = last.sheet[2].TicketID
    /\ last.sheet[1].CustomerName # last.sheet[2].CustomerName
    /\ \E i \in 1..Len(last.before) :
          /\ last.before[i].TicketID = zfill(AsStr(last.sheet[1].TicketID))
          /\ ~last.before[i].Sold
          /\ tickets[last.s][i].Sold
          /\ tickets[last.s][i].Customer = last.sheet[1].CustomerName

\* C6: a manual sale turns an unsold ticket into one that the sale reversal,
\* run on the reloaded table, turns back into the ticket before the sale; and
\* the reversal of a ticket without an entry leaves exactly Sold = false,
\* Customer = "", Timestamp = null on an otherwise unchanged row.
C6_SaleReversalRoundTrip ==
    /\ Ran("ManualSale") =>
          /\ ~Pre.Sold /\ Post.Sold /\ Post.Customer = last.cust
          /\ (~Pre.Visited /\ Pre.Visitor_Seats = 0) =>
                /\ Pre.Customer = "" /\ Pre.Timestamp = Null
                /\ LET reloaded == load_all_data(db_tickets)[last.idx]
                   IN [reloaded EXCEPT !.Sold = FALSE, !.Customer = "",
                                       !.Timestamp = Null] = Pre
    /\ (Ran("ReverseSale") /\ ~Pre.Visited /\ Pre.Visitor_Seats = 0) =>
          /\ Post = [Pre EXCEPT !.Sold = FALSE, !.Customer = "", !.Timestamp = Null]
          /\ Post = load_all_data(InitTicketsTable)[last.idx]

\* C6 witness: the reversal of the sale of a ticket without an entry
C6_Witness ==
    /\ Ran("ReverseSale")
    /\ Pre.Sold /\ Pre.Customer # "" /\ Pre.Timestamp # Null /\ ~Pre.Visited
    /\ ~Post.Sold /\ Post.Customer = "" /\ Post.Timestamp = Null

\* C7: an entry with visitor count v happens exactly when 1 <= v <= Admit of
\* the chosen eligible ticket (v = 1 and v = Admit included), and then sets
\* Visited = true and Visitor_Seats = v; no other v reaches the ticket.
C7_EntryBounds ==
    /\ Ran("Entry") =>
          /\ 1 <= last.v_count /\ last.v_count <= Pre.Admit
          /\ Post.Visited /\ Post.Visitor_Seats = last.v_count
    /\ \A s \in Sessions, ty \in Types :
          pc[s] = "loaded" =>
             \A cat \in MenuCategories(menu[s], ty) :
                \A tid \in elig(tickets[s], ty, cat) :
                   \A v \in VisitorCounts :
                      (ENABLED Entry(s, ty, cat, tid, v))
                         <=> (1 <= v /\ v <= tickets[s][FirstIndex(tickets[s], tid)].Admit)

\* C7 witness: one visitor entered on a ticket admitting two
C7_Witness ==
    /\ Ran("Entry")
    /\ last.v_count = 1 /\ Pre.Admit = 2
    /\ Post.Visited /\ Post.Visitor_Seats = 1

\* C8: a sale reversal sets Sold = false, Customer = "", Timestamp = null and
\* leaves Visited and Visitor_Seats of the ticket as they were, also when the
\* ticket is Visited.
C8_ReverseSaleFrame ==
    Ran("ReverseSale") =>
        /\ Pre.Sold
        /\ ~Post.Sold /\ Post.Customer = "" /\ Post.Timestamp = Null
        /\ Post.Visited = Pre.Visited
        /\ Post.Visitor_Seats = Pre.Visitor_Seats

\* C8 witness: the sale of a ticket with two visitors entered is reversed
C8_Witness ==
    /\ Ran("ReverseSale")
    /\ Pre.Visited /\ Pre.Visitor_Seats = 2
    /\ ~Post.Sold /\ Post.Visited /\ Post.Visitor_Seats = 2

\* C9: an entry reversal sets Visited = false and Visitor_Seats = 0 and
\* leaves Timestamp, Sold and Customer of the ticket as they were.
C9_ReverseEntryFrame ==
    Ran("ReverseEntry") =>
        /\ Pre.Visited
        /\ ~Post.Visited /\ Post.Visitor_Seats = 0
        /\ Post.Timestamp = Pre.Timestamp
        /\ Post.Sold = Pre.Sold
        /\ Post.Customer = Pre.Customer

\* C9 witness: the entry of a sold ticket is reversed and its Timestamp stays
C9_Witness ==
    /\ Ran("ReverseEntry")
    /\ Pre.Sold /\ Pre.Timestamp # Null
    /\ Post.Sold /\ ~Post.Visited /\ Post.Timestamp = Pre.Timestamp

\* C10: a reset with the password "admin123" leaves every ticket with
\* Sold = false, Visited = false, Customer = "", Visitor_Seats = 0 and
\* Timestamp = null, nothing else changed, and that store persisted; a reset
\* with another password changes neither the dataframe nor the table.
C10_Reset ==
    Ran("Reset") =>
        LET pre == last.before
            post == tickets[last.s]
        IN IF last.admin_pass = "admin123"
             THEN /\ Len(post) = Len(pre)
                  /\ \A i \in 1..Len(pre) :
                        post[i] = [pre[i] EXCEPT !.Sold = FALSE, !.Visited = FALSE,
                                                 !.Customer = "", !.Visitor_Seats = 0,
                                                 !.Timestamp = Null]
                  /\ load_all_data(db_tickets) = post
             ELSE /\ post = pre
                  /\ db_tickets = last.table

\* C10 witness: a granted reset of a store holding a sold and visited ticket
C10_Witness ==
    /\ Ran("Reset")
    /\ last.admin_pass = "admin123"
    /\ \E i \in 1..Len(last.before) :
          /\ last.before[i].Sold /\ last.before[i].Visited
          /\ ~tickets[last.s][i].Sold /\ ~tickets[last.s][i].Visited
          /\ tickets[last.s][i].Visitor_Seats = 0

\* ----------------------------------------------------- menu of any series
\* Series cells as an editor can leave them: ranges with their two ends,
\* and texts that are no range
RangeSeries ==
    { [str |-> <<"1", "-", "3">>, start |-> 1, end |-> 3],
      [str |-> <<"1", "0", "1", "-", "1", "5", "0">>, start |-> 101, end |-> 150],
      [str |-> <<"0", "7", "-", "7">>, start |-> 7, end |-> 7],
      [str |-> <<"3", "-", "1">>, start |-> 3, end |-> 1] }
OtherSeries ==
    { Null, Some(<<"x">>), Some(<<"1", "2">>), Some(<<"5", "-">>),
      Some(<<"-", "5">>), Some(<<"1", "-", "x">>),
      Some(<<"1", "-", "2", "-", "3">>) }
AnySeries == {Some(w.str) : w \in RangeSeries} \cup OtherSeries

\* Menu tables whose Alloc and Total_Capacity were typed by hand
MenuCells == [Series : AnySeries, Admit : {Some(2), Null}]
MenuTables ==
    { << MenuRow(Some(0), "Guest", "VIP", c.Series, c.Admit, Some(7), Some(9)) >>
          : c \in MenuCells }
    \cup
    { << MenuRow(Some(0), "Guest", "VIP", c.Series, c.Admit, Some(7), Some(9)),
         MenuRow(Some(1), "Public", "Gold", d.Series, d.Admit, Some(7), Some(9)) >>
          : c \in MenuCells, d \in {x \in MenuCells : x.Admit # Null} }
AnyMenuEdits == [row : 0..1, Series : AnySeries]

InitMenu ==
    /\ db_tickets = InitTicketsTable
    /\ db_menu \in MenuTables
    /\ cache = Null
    /\ tickets = [s \in Sessions |-> <<>>]
    /\ menu = [s \in Sessions |-> <<>>]
    /\ pc = [s \in Sessions |-> "start"]
    /\ now = 1
    /\ last = NoEvent
    /\ view = [s \in Sessions |-> <<>>]

\* Script runs on the Edit Menu tab
NextMenu ==
    \/ Load(1)
    \/ \E e \in AnyMenuEdits, p \in Passwords : MenuCommit(1, e, p)

SpecMenu == InitMenu /\ [][NextMenu]_vars

\* The dashboards on show, each with the dataframe it was drawn from
Shown == {s \in Sessions : pc[s] = "loaded"}
Groups(v) == 1..(Len(v) - 1)

\* C11: in the summary a group with Seq 0 comes after every group with
\* Seq > 0, whatever the positive Seq, and the Total row is the last row.
C11_ZeroSeqLast ==
    \A s \in Shown :
        LET v == view[s]
        IN /\ v[Len(v)].Seq = "Total"
           /\ \A g \in Groups(v), h \in Groups(v) :
                 (v[g].Seq[1] = 0 /\ v[h].Seq[1] > 0) => h < g

\* The sum of a column over the rows at the given positions
RECURSIVE SumAt(_, _, _)
SumAt(v, col, rows) ==
    IF rows = {} THEN 0
    ELSE LET g == CHOOSE x \in rows : \A y \in rows : x >= y
         IN SumAt(v, col, rows \ {g}) + v[g][col]

\* C12: every numeric column of the Total row is the sum of that column over
\* the group rows, and its Balance_Tickets = Total_Tickets - Tickets_Sold.
C12_TotalsAreSums ==
    \A s \in Shown :
        LET v == view[s]
            tot == v[Len(v)]
        IN /\ \A col \in NumericColumns : tot[col] = SumAt(v, col, Groups(v))
           /\ tot.Balance_Tickets = tot.Total_Tickets - tot.Tickets_Sold
           /\ tot.Total_Tickets = Cardinality(Grouped(tickets[s]))
           /\ tot.Tickets_Sold =
                 Cardinality({i \in Grouped(tickets[s]) : tickets[s][i].Sold})

\* C12 witness: two groups, tickets sold and tickets left
C12_Witness ==
    \E s \in Shown :
        LET v == view[s]
        IN /\ Len(v) = 3
           /\ v[1].Total_Tickets = 1 /\ v[2].Total_Tickets = 1
           /\ v[3].Total_Tickets = 2
           /\ v[3].Tickets_Sold = 1 /\ v[3].Balance_Tickets = 1

\* C19: the Total row counts every ticket of the store, those with a
\* missing Seq included.
C19_EveryTicketCounted ==
    \A s \in Shown :
        view[s][Len(view[s])].Total_Tickets = Len(tickets[s])

\* C13: a menu row whose Series is <int>-<int> is saved with
\* Alloc = end - start + 1 and Total_Capacity = Alloc * Admit; a row whose
\* Series is anything else or missing is saved with both as they were; every
\* row of the editor is treated so, whatever the rows before it hold.
C13_CatalogDerivation ==
    (Ran("MenuCommit") /\ last.menu_pass = AdminPassword) =>
        /\ Len(db_menu) = Len(last.edited)
        /\ \A i \in 1..Len(db_menu) :
              LET old == last.edited[i]
                  new == db_menu[i]
              IN /\ \A w \in RangeSeries :
                       old.Series = Some(w.str) =>
                           /\ new.Alloc = Some(w.end - w.start + 1)
                           /\ new.Total_Capacity =
                                 IF IsNull(old.Admit) THEN Null
                                 ELSE Some(new.Alloc[1] * old.Admit[1])
                 /\ old.Series \in OtherSeries =>
                       /\ new.Alloc = old.Alloc
                       /\ new.Total_Capacity = old.Total_Capacity
                 /\ new.Series = old.Series /\ new.Admit = old.Admit
                 /\ new.Seq = old.Seq /\ new.Type = old.Type
                 /\ new.Category = old.Category

\* C13 witness: a row that is no range kept its typed values and the row
\* after it was recalculated
C13_Witness ==
    /\ Ran("MenuCommit") /\ last.menu_pass = AdminPassword
    /\ Len(db_menu) = 2
    /\ last.edited[1].Series = Some(<<"1", "-", "2", "-", "3">>)
    /\ db_menu[1].Alloc = Some(7) /\ db_menu[1].Total_Capacity = Some(9)
    /\ last.edited[2].Series = Some(<<"1", "0", "1", "-", "1", "5", "0">>)
    /\ last.edited[2].Alloc = Some(7)
    /\ db_menu[2].Alloc = Some(50) /\ db_menu[2].Total_Capacity = Some(100)

\* The handlers that write the tickets table
TicketWrites == {"ManualSale", "BulkSale", "ReverseSale", "Entry", "ReverseEntry"}
Persisted == load_all_data(db_tickets)

\* C14: when a session writes, the tickets table becomes that session's
\* dataframe: every row the handler left alone is stored as the writer's
\* snapshot held it, whatever another session had written there before.
C14_LastWriterWins ==
    last.op \in TicketWrites =>
        /\ Persisted = tickets[last.s]
        /\ \A i \in 1..Len(Persisted) :
              tickets[last.s][i] = last.before[i] => Persisted[i] = last.before[i]

\* C14 witness: session 1 sold ticket 0001, session 2, whose snapshot was
\* older, then sold ticket 0002, and the table holds 0001 unsold
C14_Witness ==
    /\ Ran("ManualSale") /\ last.s = 2 /\ last.idx = 2
    /\ Len(tickets[1]) = 2 /\ tickets[1][1].Sold
    /\ ~last.before[1].Sold
    /\ ~Persisted[1].Sold /\ Persisted[2].Sold

\* C15: an entry acts on a ticket that was sold and not visited; whatever
\* the handler, a ticket becomes Visited only by an entry on it while it was
\* sold, and the Visitor_Seats of a visited ticket change only by a reverse
\* entry or a reset, which put them to 0 and clear Visited.
C15_CheckInOnlySoldUnvisited ==
    last.op # "none" =>
        /\ Ran("Entry") => (Pre.Sold /\ ~Pre.Visited /\ Post.Visited)
        /\ \A i \in 1..Len(last.before) :
              LET old == last.before[i]
                  new == tickets[last.s][i]
              IN /\ (~old.Visited /\ new.Visited) =>
                        (Ran("Entry") /\ i = last.idx /\ old.Sold)
                 /\ (old.Visited /\ new.Visitor_Seats # old.Visitor_Seats) =>
                        /\ last.op \in {"ReverseEntry", "Reset"}
                        /\ new.Visitor_Seats = 0 /\ ~new.Visited

\* C15 witness: an entry on ticket 0001, sold before and not visited, while
\* ticket 0002 was visited already
C15_Witness ==
    /\ Ran("Entry") /\ last.idx = 1
    /\ Pre.Sold /\ ~Pre.Visited /\ Post.Visited /\ Post.Visitor_Seats = 1
    /\ last.before[2].Visited /\ tickets[last.s][2] = last.before[2]

\* C16: a manual sale or a bulk sale leaves the Customer and the Timestamp
\* of every ticket that was sold as they were, and whatever the handler, the
\* Customer of a sold ticket changes only by its reverse sale or by a reset.
C16_SoldCustomerKept ==
    last.op # "none" =>
        \A i \in 1..Len(last.before) :
            LET old == last.before[i]
                new == tickets[last.s][i]
            IN old.Sold =>
                  /\ last.op \in {"ManualSale", "BulkSale"} =>
                        (new.Customer = old.Customer /\ new.Timestamp = old.Timestamp)
                  /\ new.Customer # old.Customer =>
                        \/ Ran("Reset")
                        \/ Ran("ReverseSale") /\ i = last.idx

\* C16 witness: a bulk sale whose sheet names ticket 0001, sold to Bob, for
\* Carol, and sells ticket 0002
C16_Witness ==
    /\ Ran("BulkSale")
    /\ last.before[1].Sold /\ last.before[1].Customer = "Bob"
    /\ \E k \in 1..Len(last.sheet) :
          last.sheet[k].TicketID = 1 /\ last.sheet[k].CustomerName = "Carol"
    /\ tickets[last.s][1].Customer = "Bob"
    /\ ~last.before[2].Sold /\ tickets[last.s][2].Sold

\* The handler that just ran wrote to the database
Wrote ==
    \/ last.op \in TicketWrites
    \/ Ran("Reset") /\ last.admin_pass = AdminPassword
    \/ Ran("MenuCommit") /\ last.menu_pass = AdminPassword

\* C17: after a handler that wrote, the tickets table read back is the
\* session's dataframe and the cache is empty; the load of the next run then
\* gives the session the tables as they are stored, never an older copy.
C17_WriteThenLoad ==
    /\ Wrote => (Persisted = tickets[last.s] /\ IsNull(cache))
    /\ \A s \in Shown : tickets[s] = Persisted /\ menu[s] = db_menu
    /\ ~IsNull(cache) => cache[1] = <<Persisted, db_menu>>

\* C17 witness: the run after a sale and an entry on ticket 0001 loaded
\* the ticket as it was written
C17_Witness ==
    /\ 1 \in Shown /\ last = NoEvent
    /\ tickets[1][1].Sold /\ tickets[1][1].Visited
    /\ Persisted[1] = tickets[1][1]

\* C18: on every dashboard every group has
\* Balance_Visitors = Seats_sold - Total_Visitors, and it is not negative.
C18_VisitorsWithinSeatsSold ==
    \A s \in Shown :
        \A g \in Groups(view[s]) :
            /\ view[s][g].Balance_Visitors =
                   view[s][g].Seats_sold - view[s][g].Total_Visitors
            /\ view[s][g].Balance_Visitors >= 0

\* The columns no handler assigns
Identity(r) ==
    [TicketID |-> r.TicketID, Type |-> r.Type, Category |-> r.Category,
     Admit |-> r.Admit, Seq |-> r.Seq]
SingleTicketOps == {"ManualSale", "ReverseSale", "Entry", "ReverseEntry"}

\* C20: a manual sale, reverse sale, entry or reverse entry changes no
\* ticket but the one whose TicketID was chosen; every handler, bulk sale
\* and reset included, keeps the tickets the same in number and order and
\* each ticket's TicketID, Type, Category, Admit and Seq, in the dataframe
\* and in the stored table.
C20_OnlyChosenTicket ==
    /\ last.op # "none" =>
          /\ Len(tickets[last.s]) = Len(last.before)
          /\ \A i \in 1..Len(last.before) :
                /\ Identity(tickets[last.s][i]) = Identity(last.before[i])
                /\ (last.op \in SingleTicketOps /\ last.before[i].TicketID # last.tid)
                      => tickets[last.s][i] = last.before[i]
    /\ Len(Persisted) = Len(InitTicketsTable)
    /\ \A i \in 1..Len(Persisted) :
          Identity(Persisted[i]) = Identity(load_all_data(InitTicketsTable)[i])

\* C20 witness: an entry on ticket 0002 while ticket 0001 was sold to Bob:
\* 0002 changed, 0001 did not
C20_Witness ==
    /\ Ran("Entry") /\ last.tid = <<0, 0, 0, 2>>
    /\ last.before[1].Sold /\ last.before[1].Customer = "Bob"
    /\ tickets[last.s][1] = last.before[1]
    /\ tickets[last.s][2] # last.before[2]
====
